---- MODULE Spec2Model ----
(***************************************************************************)
(* State-machine model of the JARVIS chat hook (src/hooks/useChat.js) and  *)
(* of the Gemini provider (src/services/geminiService.js): the streaming   *)
(* session controller, the requestAnimationFrame flush buffer and the      *)
(* provider's streaming call with its abort controller.                     *)
(*                                                                         *)
(* Texts are sequences of one-character strings; " " is the whitespace     *)
(* character.  Every event handler of the single UI thread is one action.  *)
(***************************************************************************)
EXTENDS Integers, Sequences, FiniteSets, TLC

(* ------------------------------ bounds -------------------------------- *)
MaxSessions == 2
MaxChunks == 2
MaxGrowths == 3
NumFallbacks == 1

(* ---------------------------- constants -------------------------------- *)
DefaultMaxLength == 10000

SENDER == [USER |-> "user", BOT |-> "bot", SYSTEM |-> "system"]

MESSAGE_STATUS == [PENDING |-> "pending", SENT |-> "sent",
                   DELIVERED |-> "delivered", ERROR |-> "error"]

CHAT_STATE == [IDLE |-> "idle", LOADING |-> "loading", STREAMING |-> "streaming",
               ERROR |-> "error", SUCCESS |-> "success"]

ERROR_TYPES == [API_KEY_MISSING |-> "API_KEY_MISSING", API_KEY_INVALID |-> "API_KEY_INVALID",
                QUOTA_EXCEEDED |-> "QUOTA_EXCEEDED", NETWORK_ERROR |-> "NETWORK_ERROR",
                RATE_LIMITED |-> "RATE_LIMITED", UNKNOWN |-> "UNKNOWN"]

(* null of a string-valued slot, of an id-valued slot, of the controller slot *)
NULL == "null"
NoId == <<"null", 0>>
NoController == 0

(* ------------------------------ texts ---------------------------------- *)
Chars == {"a", " "}

(* the texts a caller passes: empty, whitespace only, plain, padded *)
InputTexts == {<<>>, <<" ">>, <<"a">>, <<" ", "a", " ">>}

(* the text of the k-th chunk of a stream: whitespace and letters alternate *)
ChunkAt(k) == IF k % 2 = 1 THEN <<" ">> ELSE <<"a">>

(* the fixed apology text of createErrorMessage and the welcome text *)
ErrorText == <<"E">>
WelcomeText == <<"W">>

IsPrefix(s, t) == Len(s) <= Len(t) /\ SubSeq(t, 1, Len(s)) = s

RECURSIVE TrimStart(_)
TrimStart(s) == IF s # <<>> /\ Head(s) = " " THEN TrimStart(Tail(s)) ELSE s

RECURSIVE TrimEnd(_)
TrimEnd(s) == IF s # <<>> /\ s[Len(s)] = " " THEN TrimEnd(SubSeq(s, 1, Len(s) - 1)) ELSE s

Trim(s) == TrimEnd(TrimStart(s))

(* --------------------------- pure helpers ------------------------------ *)
(* validateMessage that measures the text as typed, before trimming *)
validateMessage_RawLength(message, maxLength) ==
  IF message = <<>> THEN [isValid |-> FALSE, error |-> "Message cannot be empty", value |-> <<>>]
  ELSE LET trimmed == Trim(message)
       IN IF Len(trimmed) = 0
            THEN [isValid |-> FALSE, error |-> "Message cannot be empty", value |-> <<>>]
          ELSE IF Len(message) > maxLength
            THEN [isValid |-> FALSE, error |-> "Message exceeds maxLength characters", value |-> <<>>]
          ELSE [isValid |-> TRUE, error |-> NULL, value |-> trimmed]

(* validateMessage without the test for a text that is empty once trimmed *)
validateMessage_NoBlankCheck(message, maxLength) ==
  IF message = <<>> THEN [isValid |-> FALSE, error |-> "Message cannot be empty", value |-> <<>>]
  ELSE LET trimmed == Trim(message)
       IN IF Len(trimmed) > maxLength
            THEN [isValid |-> FALSE, error |-> "Message exceeds maxLength characters", value |-> <<>>]
          ELSE [isValid |-> TRUE, error |-> NULL, value |-> trimmed]

(* validateMessage that hands back the text as typed, untrimmed *)
validateMessage_Untrimmed(message, maxLength) ==
  IF message = <<>> THEN [isValid |-> FALSE, error |-> "Message cannot be empty", value |-> <<>>]
  ELSE LET trimmed == Trim(message)
       IN IF Len(trimmed) = 0
            THEN [isValid |-> FALSE, error |-> "Message cannot be empty", value |-> <<>>]
          ELSE IF Len(trimmed) > maxLength
            THEN [isValid |-> FALSE, error |-> "Message exceeds maxLength characters", value |-> <<>>]
          ELSE [isValid |-> TRUE, error |-> NULL, value |-> message]

validateMessage(message, maxLength) ==
  IF message = <<>> THEN [isValid |-> FALSE, error |-> "Message cannot be empty", value |-> <<>>]
  ELSE LET trimmed == Trim(message)
       IN IF Len(trimmed) = 0
            THEN [isValid |-> FALSE, error |-> "Message cannot be empty", value |-> <<>>]
          ELSE IF Len(trimmed) > maxLength
            THEN [isValid |-> FALSE, error |-> "Message exceeds maxLength characters", value |-> <<>>]
          ELSE [isValid |-> TRUE, error |-> NULL, value |-> trimmed]

Max(S) == CHOOSE x \in S : \A y \in S : y <= x

(* generateId(): an id no message of the list ms carries; n counts the ids *)
(* generated earlier in the same handler.                                  *)
generateId(ms, n) ==
  <<"gen", n + 1 + Max({0} \cup {ms[i].id[2] : i \in {j \in 1..Len(ms) : ms[j].id[1] = "gen"}})>>

createMessage(text, sender, id, status) ==
  [id |-> id, text |-> text, sender |-> sender, status |-> status]

createUserMessage(text, ms) == createMessage(text, SENDER.USER, generateId(ms, 0), MESSAGE_STATUS.SENT)

createBotMessage(text, ms) == createMessage(text, SENDER.BOT, generateId(ms, 0), MESSAGE_STATUS.SENT)

createErrorMessage(ms, n) == createMessage(ErrorText, SENDER.BOT, generateId(ms, n), MESSAGE_STATUS.ERROR)

(* An upstream error is the set of patterns its lower-cased message contains. *)
UpstreamErrors == {{"quota"}}

(* _handleError that tests the rate patterns before the quota patterns *)
_handleError_RateFirst(e) ==
  IF e \cap {"api key", "api_key", "invalid"} # {}
    THEN [type |-> ERROR_TYPES.API_KEY_INVALID, message |-> "Invalid API key. Please check your configuration."]
  ELSE IF e \cap {"rate", "429"} # {}
    THEN [type |-> ERROR_TYPES.RATE_LIMITED, message |-> "Rate limit exceeded. Please slow down."]
  ELSE IF e \cap {"quota", "limit exceeded"} # {}
    THEN [type |-> ERROR_TYPES.QUOTA_EXCEEDED, message |-> "API quota exceeded. Please try again later."]
  ELSE IF e \cap {"network", "fetch", "timeout"} # {}
    THEN [type |-> ERROR_TYPES.NETWORK_ERROR, message |-> "Network error. Please check your connection."]
  ELSE [type |-> ERROR_TYPES.UNKNOWN, message |-> "An unexpected error occurred."]

_handleError(e) ==
  IF e \cap {"api key", "api_key", "invalid"} # {}
    THEN [type |-> ERROR_TYPES.API_KEY_INVALID, message |-> "Invalid API key. Please check your configuration."]
  ELSE IF e \cap {"quota", "limit exceeded"} # {}
    THEN [type |-> ERROR_TYPES.QUOTA_EXCEEDED, message |-> "API quota exceeded. Please try again later."]
  ELSE IF e \cap {"rate", "429"} # {}
    THEN [type |-> ERROR_TYPES.RATE_LIMITED, message |-> "Rate limit exceeded. Please slow down."]
  ELSE IF e \cap {"network", "fetch", "timeout"} # {}
    THEN [type |-> ERROR_TYPES.NETWORK_ERROR, message |-> "Network error. Please check your connection."]
  ELSE [type |-> ERROR_TYPES.UNKNOWN, message |-> "An unexpected error occurred."]

MissingKeyError ==
  [type |-> ERROR_TYPES.API_KEY_MISSING, message |-> "Gemini API key not configured"]

(* the environment's VITE_GEMINI_API_KEY *)
ApiKeys == {"missing", "your_api_key_here", "valid"}

(* hasValidApiKey that takes any key that is present *)
hasValidApiKey_AnyKey(key) == key # "missing"

hasValidApiKey(key) == key # "missing" /\ key # "your_api_key_here"

isConfigured(key) == key # "missing"

NumModels == 1 + NumFallbacks

WELCOME_MESSAGES ==
  <<[id |-> <<"welcome", 0>>, text |-> WelcomeText, sender |-> SENDER.BOT,
     status |-> MESSAGE_STATUS.SENT]>>

(* ------------------------------ state ---------------------------------- *)
VARIABLES
  apiKey,                 \* import.meta.env.VITE_GEMINI_API_KEY
  messages,               \* useChat: conversation list
  chatState,              \* useChat: session state
  error,                  \* useChat: error banner string or NULL
  inputValue,             \* useChat: text of the input box
  streamingContent,       \* useChat: published streaming text
  streamingMessageId,     \* useChat: placeholder id or NoId
  pendingChunkRef,        \* useChat: latest accumulated text
  rafIdRef,               \* useChat: TRUE while a flush frame is requested
  activeAbortController,  \* provider: call owning the controller, or NoController
  calls,                  \* provider: one record per generateStreamingResponse call
  sends,                  \* number of accepted sends so far
  (* one call of the provider made by a client that records what it gets; *)
  (* the call is calls[1]                                                  *)
  method,                 \* the method called: "stream", "once" or "none"
  lastError,              \* the provider's lastError, or NoError
  delivered,              \* the callbacks invoked so far, in order
  outcome,                \* the value the call returned or the error it threw
  retryCount,             \* options.retryCount of the attempt of the retrying generateResponse
  (* the scroll container of Chatbot and the refs of useStickyScroll *)
  optionsPassed,          \* whether the host passes isStreaming and streamingContent
  listenerAttached,       \* whether the scroll listener of useStickyScroll is attached
  scrollTop,              \* containerRef.current.scrollTop
  isUserScrolledUpRef,    \* useStickyScroll: isUserScrolledUpRef
  lastScrollTopRef,       \* useStickyScroll: lastScrollTopRef
  scrollTimeoutRef,       \* the scroll position sampled for the pending check, or NoTimeout
  scrollCheckDue,         \* the time at which the pending check runs, or NoTimeout
  scrollRafIdRef,         \* useStickyScroll: TRUE while rafIdRef names a requested frame
  scrollFrames,           \* number of frames of scrollToBottom requested and not yet run
  lastContentLengthRef,   \* useStickyScroll: lastContentLengthRef
  (* the clock, and a log of when the flush buffer was written and flushed *)
  now,                    \* performance.now(), in ms
  requests,               \* the times of the calls of updateStreamingContent
  flushes,                \* the times at which the flush callback ran
  flushFrames             \* number of flush callbacks requested and not yet run

provVars == <<method, lastError, delivered, outcome>>

scrollVars == <<optionsPassed, listenerAttached, scrollTop, isUserScrolledUpRef,
                lastScrollTopRef, scrollTimeoutRef, scrollCheckDue, scrollRafIdRef,
                scrollFrames, lastContentLengthRef>>

clockVars == <<now, requests, flushes, flushFrames>>

(* the variables the hook and the provider proper leave alone *)
auxVars == <<provVars, scrollVars>>

hookVars == <<messages, chatState, error, inputValue, streamingContent,
              streamingMessageId, pendingChunkRef, rafIdRef, sends, scrollVars>>

vars == <<apiKey, messages, chatState, error, inputValue, streamingContent,
          streamingMessageId, pendingChunkRef, rafIdRef, activeAbortController,
          calls, sends, provVars, retryCount, scrollVars, clockVars>>

CallIds == 1..MaxSessions

IdleCall == [pc |-> "none", sid |-> NoId, model |-> 1, acc |-> <<>>, aborted |-> FALSE]

(* a call that returned or threw: its locals are gone *)
DoneCall == [IdleCall EXCEPT !.pc = "done"]

(* an error thrown by the SDK, and the absence of one *)
NoError == {"none"}

(* what a call settled with; Pending until it settles *)
Pending == [kind |-> "pending"]
Returned(value) == [kind |-> "returned", value |-> value]
Threw(err) == [kind |-> "threw", error |-> err]

(* the page has just loaded: nothing was written to the buffer or flushed *)
ClockStarted ==
  /\ now = 0
  /\ requests = <<>>
  /\ flushes = <<>>
  /\ flushFrames = 0

(* the recording client has called nothing yet *)
NoCallObserved ==
  /\ method = "none"
  /\ lastError = NoError
  /\ delivered = <<>>
  /\ outcome = Pending
  /\ retryCount = 0

(* no scroll check pending *)
NoTimeout == 0 - 1

(* useStickyScroll as Chatbot mounts it: no options; the list is empty in  *)
(* the commit that mounts the hook, so the container is not rendered and   *)
(* the listener effect, which runs once, attaches nothing; refs at their   *)
(* initial values, the container at the top                                *)
StickyScrollMounted ==
  /\ optionsPassed = FALSE
  /\ listenerAttached = FALSE
  /\ scrollFrames = 0
  /\ scrollTop = 0
  /\ isUserScrolledUpRef = FALSE
  /\ lastScrollTopRef = 0
  /\ scrollTimeoutRef = NoTimeout
  /\ scrollCheckDue = NoTimeout
  /\ scrollRafIdRef = FALSE
  /\ lastContentLengthRef = 0

Init ==
  /\ apiKey \in {"missing", "valid"}
  /\ messages = IF hasValidApiKey(apiKey) THEN WELCOME_MESSAGES ELSE <<>>
  /\ chatState = CHAT_STATE.IDLE
  /\ error = NULL
  /\ inputValue = <<>>
  /\ streamingContent = <<>>
  /\ streamingMessageId = NoId
  /\ pendingChunkRef = <<>>
  /\ rafIdRef = FALSE
  /\ activeAbortController = NoController
  /\ calls = [c \in CallIds |-> IdleCall]
  /\ sends = 0
  /\ NoCallObserved
  /\ ClockStarted
  /\ StickyScrollMounted

(* ------------------------ provider: cancelStream ------------------------ *)
(* cancelStream(): abort the controller the provider holds and forget it.  *)
cancelStream(cs, ac) ==
  IF ac # NoController THEN [cs EXCEPT ![ac].aborted = TRUE] ELSE cs

(* ---------------------- useChat: the flush buffer ----------------------- *)
(* updateStreamingContent that stores the text and requests no frame *)
updateStreamingContent_NoFrame(content) ==
  /\ pendingChunkRef' = content
  /\ rafIdRef' = rafIdRef

(* updateStreamingContent(content): store the text, request one frame.     *)
updateStreamingContent(content) ==
  /\ pendingChunkRef' = content
  /\ rafIdRef' = TRUE

(* the requestAnimationFrame callback of updateStreamingContent *)
Flush ==
  /\ rafIdRef
  /\ streamingContent' = pendingChunkRef
  /\ rafIdRef' = FALSE
  /\ UNCHANGED <<apiKey, retryCount, clockVars, auxVars, messages, chatState, error, inputValue, streamingMessageId,
                 pendingChunkRef, activeAbortController, calls, sends>>

(* -------------------- useChat: callbacks of a session ------------------- *)
(* onComplete that keeps the generated id of the bot message *)
onComplete_GeneratedId(sid, finalText) ==
  /\ messages' = Append(messages, createBotMessage(finalText, messages))
  /\ streamingContent' = <<>>
  /\ streamingMessageId' = NoId
  /\ chatState' = CHAT_STATE.SUCCESS
  /\ UNCHANGED error

(* onComplete that leaves the placeholder id in place *)
onComplete_KeepsPlaceholder(sid, finalText) ==
  /\ messages' = Append(messages, [createBotMessage(finalText, messages) EXCEPT !.id = sid])
  /\ streamingContent' = <<>>
  /\ chatState' = CHAT_STATE.SUCCESS
  /\ UNCHANGED <<error, streamingMessageId>>

(* onComplete(finalText) of the session whose placeholder id is sid *)
onComplete(sid, finalText) ==
  /\ messages' = Append(messages, [createBotMessage(finalText, messages) EXCEPT !.id = sid])
  /\ streamingContent' = <<>>
  /\ streamingMessageId' = NoId
  /\ chatState' = CHAT_STATE.SUCCESS
  /\ UNCHANGED error

(* onError(err) followed by the catch block of sendMessage, which runs for *)
(* the same error because generateStreamingResponse rethrows it.           *)
onErrorThenCatch(base, err) ==
  /\ messages' = base \o <<createErrorMessage(base, 0), createErrorMessage(base, 1)>>
  /\ streamingContent' = <<>>
  /\ streamingMessageId' = NoId
  /\ error' = err.message
  /\ chatState' = CHAT_STATE.ERROR

(* Date.now() read by the c-th accepted send: sends are at least one       *)
(* millisecond apart.                                                      *)
DateNow(c) == c

(* ------------------------- useChat: sendMessage ------------------------- *)
(* sendMessage(text) on top of the conversation list base; runs up to the  *)
(* first await inside generateStreamingResponse.                           *)
sendMessage(text, base) ==
  LET validation == validateMessage(text, DefaultMaxLength)
  IN IF ~validation.isValid
       THEN /\ error' = validation.error
            /\ messages' = base
            /\ UNCHANGED <<apiKey, retryCount, clockVars, chatState, inputValue, streamingContent, streamingMessageId,
                           pendingChunkRef, rafIdRef, activeAbortController, calls, sends>>
       ELSE /\ sends < MaxSessions
            /\ LET c == sends + 1
                   streamingId == <<"streaming", DateNow(c)>>
                   userMessage == createUserMessage(validation.value, base)
               IN   /\ sends' = c
                    /\ inputValue' = <<>>
                    /\ IF ~isConfigured(apiKey)
                         THEN /\ onErrorThenCatch(Append(base, userMessage), MissingKeyError)
                              /\ calls' = [calls EXCEPT ![c] = DoneCall]
                              /\ UNCHANGED activeAbortController
                         ELSE /\ messages' = Append(base, userMessage)
                              /\ streamingMessageId' = streamingId
                              /\ streamingContent' = <<>>
                              /\ chatState' = CHAT_STATE.STREAMING
                              /\ error' = NULL
                              /\ calls' = [cancelStream(calls, activeAbortController) EXCEPT
                                             ![c] = [IdleCall EXCEPT !.pc = "streaming", !.sid = streamingId]]
                              /\ activeAbortController' = c
                    /\ UNCHANGED <<apiKey, retryCount, clockVars, pendingChunkRef, rafIdRef>>

(* sendMessage() with its default argument, the text of the input box *)
SendMessage == sendMessage(inputValue, messages) /\ UNCHANGED auxVars

(* handleInputChange(value) *)
HandleInputChange ==
  \E value \in InputTexts :
    /\ value # inputValue
    /\ inputValue' = value
    /\ error' = NULL
    /\ UNCHANGED <<apiKey, retryCount, clockVars, auxVars, messages, chatState, streamingContent, streamingMessageId,
                   pendingChunkRef, rafIdRef, activeAbortController, calls, sends>>

(* ----------------------- useChat: cancelStreaming ----------------------- *)
(* cancelStreaming that sets the list to the finalized text alone *)
cancelFinalize_Replacing(base) ==
  IF streamingMessageId # NoId /\ streamingContent # <<>>
    THEN <<[createBotMessage(streamingContent, base) EXCEPT !.id = streamingMessageId]>>
    ELSE base

(* the list after cancelStreaming finalized the published streaming text *)
cancelFinalize(base) ==
  IF streamingMessageId # NoId /\ streamingContent # <<>>
    THEN Append(base, [createBotMessage(streamingContent, base) EXCEPT !.id = streamingMessageId])
    ELSE base

CancelStreaming ==
  /\ calls' = cancelStream(calls, activeAbortController)
  /\ activeAbortController' = NoController
  /\ messages' = cancelFinalize(messages)
  /\ streamingContent' = <<>>
  /\ streamingMessageId' = NoId
  /\ chatState' = CHAT_STATE.IDLE
  /\ UNCHANGED <<apiKey, retryCount, clockVars, auxVars, error, inputValue, pendingChunkRef, rafIdRef, sends>>

(* clearMessages(): cancelStreaming(), then empty the list *)
ClearMessages ==
  /\ calls' = cancelStream(calls, activeAbortController)
  /\ activeAbortController' = NoController
  /\ messages' = <<>>
  /\ streamingContent' = <<>>
  /\ streamingMessageId' = NoId
  /\ error' = NULL
  /\ chatState' = CHAT_STATE.IDLE
  /\ UNCHANGED <<apiKey, retryCount, clockVars, auxVars, inputValue, pendingChunkRef, rafIdRef, sends>>

(* ---------------------- useChat: retryLastMessage ----------------------- *)
UserIndexes(ms) == {i \in 1..Len(ms) : ms[i].sender = SENDER.USER}

RECURSIVE withoutErrors(_)
withoutErrors(ms) ==
  IF ms = <<>> THEN <<>>
  ELSE IF Head(ms).status # MESSAGE_STATUS.ERROR
    THEN <<Head(ms)>> \o withoutErrors(Tail(ms))
    ELSE withoutErrors(Tail(ms))

(* the oldest message whose sender is user: a forward scan *)
lastUserMessage_ForwardScan ==
  messages[CHOOSE i \in UserIndexes(messages) : \A j \in UserIndexes(messages) : i <= j]

(* the most recent message whose sender is user *)
lastUserMessage == messages[Max(UserIndexes(messages))]

(* retryLastMessage without the test of the session state *)
RetryLastMessage_Unguarded ==
  IF UserIndexes(messages) = {}
    THEN UNCHANGED vars
    ELSE sendMessage(lastUserMessage.text, withoutErrors(messages)) /\ UNCHANGED auxVars

(* retryLastMessage(): returns at once outside Error and when the list    *)
(* holds no user message; else filters the list and calls sendMessage.    *)
RetryLastMessage ==
  IF chatState # CHAT_STATE.ERROR
    THEN UNCHANGED vars
    ELSE IF UserIndexes(messages) = {}
      THEN UNCHANGED vars
      ELSE sendMessage(lastUserMessage.text, withoutErrors(messages)) /\ UNCHANGED auxVars

(* --------------- provider: generateStreamingResponse steps -------------- *)
(* Call c awaits its current model: either generateContentStream(...) or  *)
(* the next chunk of the stream it returned.                              *)
InFlight(c) == calls[c].pc = "streaming"

(* the end of the loop of call c: controller dropped, onComplete called *)
finishStream(c) ==
  /\ calls' = [calls EXCEPT ![c] = DoneCall]
  /\ activeAbortController' = NoController
  /\ onComplete(calls[c].sid, calls[c].acc)
  /\ UNCHANGED <<apiKey, retryCount, clockVars, auxVars, inputValue, pendingChunkRef, rafIdRef, sends>>

(* the abort test at the top of the loop body *)
abortSeen == activeAbortController # NoController /\ calls[activeAbortController].aborted

(* the stream of call c yields one chunk *)
StreamChunk(c) ==
  /\ calls[c].pc = "streaming"
  /\ Len(calls[c].acc) < MaxChunks
  /\ LET chunkText == ChunkAt(Len(calls[c].acc) + 1)
     IN IF abortSeen
         THEN finishStream(c)
         ELSE LET accumulatedText == calls[c].acc \o chunkText
              IN /\ calls' = [calls EXCEPT ![c].acc = accumulatedText]
                 /\ updateStreamingContent(accumulatedText)
                 /\ UNCHANGED <<apiKey, retryCount, clockVars, auxVars, messages, chatState, error, inputValue, streamingContent,
                                streamingMessageId, activeAbortController, sends>>

(* the stream of call c ends normally *)
StreamEnd(c) ==
  /\ calls[c].pc = "streaming"
  /\ finishStream(c)

(* the current model of call c throws an error that is not an AbortError *)
ModelFails(c) ==
  /\ InFlight(c)
  /\ \E e \in UpstreamErrors :
       IF calls[c].model < NumModels
         THEN /\ calls' = [calls EXCEPT ![c].model = @ + 1, ![c].acc = <<>>]
              /\ UNCHANGED <<apiKey, retryCount, clockVars, auxVars, messages, chatState, error, inputValue, streamingContent,
                             streamingMessageId, pendingChunkRef, rafIdRef,
                             activeAbortController, sends>>
         ELSE /\ calls' = [calls EXCEPT ![c] = DoneCall]
              /\ activeAbortController' = NoController
              /\ onErrorThenCatch(messages, _handleError(e))
              /\ UNCHANGED <<apiKey, retryCount, clockVars, auxVars, inputValue, pendingChunkRef, rafIdRef, sends>>

(* an AbortError handled like any other failure of the current model *)
ModelAborts_AsFailure(c) == ModelFails(c)

(* the current model of call c throws an AbortError: the call returns *)
ModelAborts(c) ==
  /\ InFlight(c)
  /\ calls' = [calls EXCEPT ![c] = DoneCall]
  /\ activeAbortController' = NoController
  /\ UNCHANGED <<apiKey, retryCount, clockVars, auxVars, messages, chatState, error, inputValue, streamingContent,
                 streamingMessageId, pendingChunkRef, rafIdRef, sends>>

Next ==
  \/ SendMessage
  \/ HandleInputChange
  \/ CancelStreaming
  \/ ClearMessages
  \/ RetryLastMessage
  \/ Flush
  \/ \E c \in CallIds : StreamChunk(c)
  \/ \E c \in CallIds : StreamEnd(c)
  \/ \E c \in CallIds : ModelFails(c)
  \/ \E c \in CallIds : ModelAborts(c)

Spec == Init /\ [][Next]_vars

(* A conversation already under way: an earlier send of the text "b"     *)
(* failed, so the list holds that user message and the error messages of   *)
(* the failure, and the state is Error. The counter of sends starts here.  *)
EarlierText == <<"b">>

EarlierError(key) == IF isConfigured(key) THEN _handleError({"quota"}) ELSE MissingKeyError

FailedExchange(base) ==
  LET withUser == Append(base, createUserMessage(EarlierText, base))
  IN withUser \o <<createErrorMessage(withUser, 0), createErrorMessage(withUser, 1)>>

RetryInit ==
  /\ apiKey \in {"missing", "valid"}
  /\ messages = FailedExchange(IF hasValidApiKey(apiKey) THEN WELCOME_MESSAGES ELSE <<>>)
  /\ chatState = CHAT_STATE.ERROR
  /\ error = EarlierError(apiKey).message
  /\ inputValue = <<>>
  /\ streamingContent = <<>>
  /\ streamingMessageId = NoId
  /\ pendingChunkRef = <<>>
  /\ rafIdRef = FALSE
  /\ activeAbortController = NoController
  /\ calls = [c \in CallIds |-> IdleCall]
  /\ sends = 0
  /\ NoCallObserved
  /\ ClockStarted
  /\ StickyScrollMounted

RetrySpec == RetryInit /\ [][Next]_vars

(* requestAnimationFrame callbacks eventually run *)
LiveSpec == Init /\ [][Next]_vars /\ WF_vars(Flush)

(* ------------- the provider called by a recording client --------------- *)
(* The client calls one method at a time and notes each callback and how   *)
(* the call settles. The call observed is calls[TheCall].                  *)
TheCall == 1

ProviderErrors == {{"quota"}, {"network"}, {"invalid"}}

(* the value of a call that returns without a value *)
Undefined == <<"undefined">>

(* response.text() of the k-th model of modelsToTry *)
ResponseText(k) == [i \in 1..k |-> "a"]

onChunkCall(text) == [callback |-> "onChunk", arg |-> text]
onCompleteCall(text) == [callback |-> "onComplete", arg |-> text]
onErrorCall(err) == [callback |-> "onError", arg |-> err]

(* generateStreamingResponse(prompt, options) up to its first await *)
GenerateStreamingResponse ==
  /\ calls[TheCall].pc \in {"none", "done"}
  /\ method' = "stream"
  /\ lastError' = NoError
  /\ IF ~isConfigured(apiKey)
       THEN /\ delivered' = <<onErrorCall(MissingKeyError)>>
            /\ outcome' = Threw(MissingKeyError)
            /\ calls' = [calls EXCEPT ![TheCall] = DoneCall]
            /\ UNCHANGED activeAbortController
       ELSE /\ delivered' = <<>>
            /\ outcome' = Pending
            /\ calls' = [cancelStream(calls, activeAbortController) EXCEPT
                           ![TheCall] = [IdleCall EXCEPT !.pc = "streaming"]]
            /\ activeAbortController' = TheCall
  /\ UNCHANGED <<apiKey, retryCount, clockVars, hookVars>>

(* the end of the loop over result.stream: onComplete, return the text *)
streamReturns ==
  /\ calls' = [calls EXCEPT ![TheCall] = DoneCall]
  /\ activeAbortController' = NoController
  /\ delivered' = Append(delivered, onCompleteCall(calls[TheCall].acc))
  /\ outcome' = Returned(calls[TheCall].acc)
  /\ UNCHANGED <<method, lastError>>

(* the stream of the observed call yields one chunk *)
YieldChunk ==
  /\ method = "stream"
  /\ InFlight(TheCall)
  /\ Len(calls[TheCall].acc) < MaxChunks
  /\ IF abortSeen
       THEN streamReturns
       ELSE LET text == calls[TheCall].acc \o ChunkAt(Len(calls[TheCall].acc) + 1)
            IN /\ calls' = [calls EXCEPT ![TheCall].acc = text]
               /\ delivered' = Append(delivered, onChunkCall(text))
               /\ UNCHANGED <<activeAbortController, method, lastError, outcome>>
  /\ UNCHANGED <<apiKey, retryCount, clockVars, hookVars>>

(* the stream of the observed call ends *)
StreamCompletes ==
  /\ method = "stream"
  /\ InFlight(TheCall)
  /\ streamReturns
  /\ UNCHANGED <<apiKey, retryCount, clockVars, hookVars>>

(* the code after the loop over the models that reports and returns normally *)
allModelsFailed_NoThrow(e) ==
  /\ calls' = [calls EXCEPT ![TheCall] = DoneCall]
  /\ activeAbortController' = NoController
  /\ delivered' = Append(delivered, onErrorCall(_handleError(e)))
  /\ outcome' = Returned(Undefined)

(* the code after the loop over the models: every model failed *)
allModelsFailed(e) ==
  /\ calls' = [calls EXCEPT ![TheCall] = DoneCall]
  /\ activeAbortController' = NoController
  /\ delivered' = Append(delivered, onErrorCall(_handleError(e)))
  /\ outcome' = Threw(_handleError(e))

(* the model awaited by the streaming call throws an error other than an  *)
(* AbortError                                                             *)
ModelThrows ==
  /\ method = "stream"
  /\ InFlight(TheCall)
  /\ \E e \in ProviderErrors :
       /\ lastError' = e
       /\ IF calls[TheCall].model < NumModels
            THEN /\ calls' = [calls EXCEPT ![TheCall].model = @ + 1, ![TheCall].acc = <<>>]
                 /\ UNCHANGED <<activeAbortController, delivered, outcome>>
            ELSE allModelsFailed(e)
  /\ UNCHANGED <<apiKey, retryCount, clockVars, hookVars, method>>

(* the model awaited by the streaming call throws an AbortError *)
ModelThrowsAbort ==
  /\ method = "stream"
  /\ InFlight(TheCall)
  /\ lastError' = {"abort"}
  /\ calls' = [calls EXCEPT ![TheCall] = DoneCall]
  /\ activeAbortController' = NoController
  /\ outcome' = Returned(Undefined)
  /\ UNCHANGED <<apiKey, retryCount, clockVars, hookVars, method, delivered>>

(* generateResponse(prompt, options) up to its first await *)
GenerateResponse ==
  /\ calls[TheCall].pc \in {"none", "done"}
  /\ method' = "once"
  /\ lastError' = NoError
  /\ delivered' = <<>>
  /\ IF ~isConfigured(apiKey)
       THEN /\ outcome' = Threw(MissingKeyError)
            /\ calls' = [calls EXCEPT ![TheCall] = DoneCall]
       ELSE /\ outcome' = Pending
            /\ calls' = [calls EXCEPT ![TheCall] = [IdleCall EXCEPT !.pc = "once"]]
  /\ UNCHANGED <<apiKey, retryCount, clockVars, hookVars, activeAbortController>>

(* generateContent of the model awaited resolves: its text is returned *)
ContentResolves ==
  /\ calls[TheCall].pc = "once"
  /\ outcome' = Returned(ResponseText(calls[TheCall].model))
  /\ calls' = [calls EXCEPT ![TheCall] = DoneCall]
  /\ UNCHANGED <<apiKey, retryCount, clockVars, hookVars, activeAbortController, method, lastError, delivered>>

(* generateContent of the model awaited throws *)
ContentThrows ==
  /\ calls[TheCall].pc = "once"
  /\ \E e \in ProviderErrors :
       /\ lastError' = e
       /\ IF calls[TheCall].model < NumModels
            THEN /\ calls' = [calls EXCEPT ![TheCall].model = @ + 1]
                 /\ UNCHANGED outcome
            ELSE /\ calls' = [calls EXCEPT ![TheCall] = DoneCall]
                 /\ outcome' = Threw(_handleError(e))
  /\ UNCHANGED <<apiKey, retryCount, clockVars, hookVars, activeAbortController, method, delivered>>

(* cancelStream() that calls abort() without testing the controller slot: *)
(* with the slot null the call throws to the client                        *)
CancelStream_NoNullTest ==
  /\ calls' = cancelStream(calls, activeAbortController)
  /\ activeAbortController' = NoController
  /\ outcome' = IF activeAbortController = NoController
                  THEN Threw([type |-> "TypeError", message |-> "null has no abort"])
                  ELSE outcome
  /\ UNCHANGED <<apiKey, retryCount, clockVars, hookVars, method, lastError, delivered>>

(* the client calls cancelStream() *)
CancelStream ==
  /\ calls' = cancelStream(calls, activeAbortController)
  /\ activeAbortController' = NoController
  /\ UNCHANGED <<apiKey, retryCount, clockVars, hookVars, provVars>>

ProviderNext ==
  \/ GenerateStreamingResponse
  \/ YieldChunk
  \/ StreamCompletes
  \/ ModelThrows
  \/ ModelThrowsAbort
  \/ GenerateResponse
  \/ ContentResolves
  \/ ContentThrows
  \/ CancelStream

ProviderSpec == Init /\ [][ProviderNext]_vars

(* --------------------- useStickyScroll in Chatbot ----------------------- *)
(* The scroll container of the conversation. Heights are in px: the        *)
(* welcome list fills the container exactly, and every block of text       *)
(* rendered below it (one per character of a message or of the published   *)
(* streaming text) adds GrowthPx; the user scrolls in steps.               *)
SCROLL_THRESHOLD == 50

ClientHeight == 100
BaseHeight == 100
GrowthPx == 75
ScrollStep == 25

RECURSIVE blocks(_)
blocks(ms) == IF ms = <<>> THEN 0 ELSE Len(Head(ms).text) + blocks(Tail(ms))

(* container.scrollHeight for a list and a published streaming text *)
scrollHeightOf(ms, content) ==
  BaseHeight + GrowthPx * (blocks(ms) - blocks(WELCOME_MESSAGES) + Len(content))

scrollHeight(content) == scrollHeightOf(messages, content)

(* the largest scrollTop the container allows *)
bottomOf(content) == scrollHeight(content) - ClientHeight

(* the text a user submits through the input box *)
SubmittedText == <<"a">>

MaxBlocks == MaxSessions * (Len(SubmittedText) + MaxGrowths)

Positions == {k * ScrollStep : k \in 0..((GrowthPx * MaxBlocks) \div ScrollStep)}

isAtBottom(content, top) == scrollHeight(content) - top - ClientHeight <= SCROLL_THRESHOLD

SCROLL_DEBOUNCE == 100

(* the timer of the debounced check: the sample its callback closes over, *)
(* and the time at which it fires                                         *)
scrollTimer == <<scrollTimeoutRef, scrollCheckDue>>

(* handleScroll that leaves a pending timer alone *)
handleScroll_KeepsTimer(currentScrollTop) ==
  IF scrollTimeoutRef # NoTimeout
    THEN UNCHANGED scrollTimer
    ELSE /\ scrollTimeoutRef' = currentScrollTop
         /\ scrollCheckDue' = now + SCROLL_DEBOUNCE

(* handleScroll(e): sample scrollTop, restart the debounce timer *)
handleScroll(currentScrollTop) ==
  /\ scrollTimeoutRef' = currentScrollTop
  /\ scrollCheckDue' = now + SCROLL_DEBOUNCE

(* a scroll event of the container: it reaches handleScroll only if the    *)
(* listener effect found the container when it ran                         *)
scrollEvent(top) ==
  IF listenerAttached THEN handleScroll(top) ELSE UNCHANGED scrollTimer

(* the user scrolls the container *)
UserScrolls ==
  /\ \E top \in Positions :
       /\ top # scrollTop
       /\ top <= bottomOf(streamingContent)
       /\ scrollTop' = top
       /\ scrollEvent(top)
  /\ UNCHANGED <<apiKey, retryCount, clockVars, messages, chatState, error, inputValue, streamingContent,
                 streamingMessageId, pendingChunkRef, rafIdRef, activeAbortController,
                 calls, sends, provVars, optionsPassed, listenerAttached,
                 isUserScrolledUpRef, lastScrollTopRef, scrollRafIdRef, scrollFrames,
                 lastContentLengthRef>>

(* the debounced check that never records an upward scroll *)
ScrollCheck_BottomOnly ==
  /\ scrollTimeoutRef # NoTimeout
  /\ isUserScrolledUpRef' =
       IF isAtBottom(streamingContent, scrollTop) THEN FALSE ELSE isUserScrolledUpRef
  /\ lastScrollTopRef' = scrollTimeoutRef
  /\ scrollTimeoutRef' = NoTimeout
  /\ scrollCheckDue' = NoTimeout
  /\ UNCHANGED <<apiKey, retryCount, clockVars, messages, chatState, error, inputValue, streamingContent,
                 streamingMessageId, pendingChunkRef, rafIdRef, activeAbortController,
                 calls, sends, provVars, optionsPassed, listenerAttached, scrollTop,
                 scrollRafIdRef, scrollFrames, lastContentLengthRef>>

(* the debounced check that resumes auto-scroll on every scroll that is    *)
(* not upward                                                              *)
ScrollCheck_DownResumes ==
  /\ scrollTimeoutRef # NoTimeout
  /\ LET currentScrollTop == scrollTimeoutRef
         scrollingUp == currentScrollTop < lastScrollTopRef
         atBottom == isAtBottom(streamingContent, scrollTop)
     IN /\ isUserScrolledUpRef' = (scrollingUp /\ ~atBottom)
        /\ lastScrollTopRef' = currentScrollTop
  /\ scrollTimeoutRef' = NoTimeout
  /\ scrollCheckDue' = NoTimeout
  /\ UNCHANGED <<apiKey, retryCount, clockVars, messages, chatState, error, inputValue, streamingContent,
                 streamingMessageId, pendingChunkRef, rafIdRef, activeAbortController,
                 calls, sends, provVars, optionsPassed, listenerAttached, scrollTop,
                 scrollRafIdRef, scrollFrames, lastContentLengthRef>>

(* the debounce timer of handleScroll fires *)
ScrollCheck ==
  /\ scrollTimeoutRef # NoTimeout
  /\ LET currentScrollTop == scrollTimeoutRef
         scrollingUp == currentScrollTop < lastScrollTopRef
         atBottom == isAtBottom(streamingContent, scrollTop)
     IN /\ isUserScrolledUpRef' = IF scrollingUp /\ ~atBottom THEN TRUE
                                  ELSE IF atBottom THEN FALSE
                                  ELSE isUserScrolledUpRef
        /\ lastScrollTopRef' = currentScrollTop
  /\ scrollTimeoutRef' = NoTimeout
  /\ scrollCheckDue' = NoTimeout
  /\ UNCHANGED <<apiKey, retryCount, clockVars, messages, chatState, error, inputValue, streamingContent,
                 streamingMessageId, pendingChunkRef, rafIdRef, activeAbortController,
                 calls, sends, provVars, optionsPassed, listenerAttached, scrollTop,
                 scrollRafIdRef, scrollFrames, lastContentLengthRef>>

(* container.scrollTo({top: scrollHeight}): the position moves to the      *)
(* bottom and, if it moved, the container emits a scroll event             *)
scrollTo ==
  /\ scrollTop' = bottomOf(streamingContent)
  /\ IF scrollTop # bottomOf(streamingContent)
       THEN scrollEvent(bottomOf(streamingContent))
       ELSE UNCHANGED scrollTimer

(* the frame requested by scrollToBottom that scrolls whatever the flag *)
ScrollFrame_Ungated ==
  /\ scrollFrames > 0
  /\ scrollTo
  /\ scrollRafIdRef' = FALSE
  /\ scrollFrames' = scrollFrames - 1
  /\ UNCHANGED <<apiKey, retryCount, clockVars, messages, chatState, error, inputValue, streamingContent,
                 streamingMessageId, pendingChunkRef, rafIdRef, activeAbortController,
                 calls, sends, provVars, optionsPassed, listenerAttached,
                 isUserScrolledUpRef, lastScrollTopRef, lastContentLengthRef>>

(* the frame requested by scrollToBottom runs *)
ScrollFrame ==
  /\ scrollFrames > 0
  /\ IF ~isUserScrolledUpRef
       THEN scrollTo
       ELSE UNCHANGED <<scrollTop, scrollTimer>>
  /\ scrollRafIdRef' = FALSE
  /\ scrollFrames' = scrollFrames - 1
  /\ UNCHANGED <<apiKey, retryCount, clockVars, messages, chatState, error, inputValue, streamingContent,
                 streamingMessageId, pendingChunkRef, rafIdRef, activeAbortController,
                 calls, sends, provVars, optionsPassed, listenerAttached,
                 isUserScrolledUpRef, lastScrollTopRef, lastContentLengthRef>>

(* scrollToBottom() that requests a frame and cancels none *)
scrollToBottom_NoCancel(req) == [id |-> TRUE, queued |-> req.queued + 1]

(* scrollToBottom() of useStickyScroll on the frame bookkeeping req: the   *)
(* frame the ref names is cancelled and a new one requested                *)
scrollToBottom(req) ==
  [id |-> TRUE, queued |-> (IF req.id THEN req.queued - 1 ELSE req.queued) + 1]

RECURSIVE scrollToBottomTimes(_, _)
scrollToBottomTimes(n, req) ==
  IF n = 0 THEN req ELSE scrollToBottomTimes(n - 1, scrollToBottom(req))

Count(b) == IF b THEN 1 ELSE 0

(* the effects of one commit call scrollToBottom() n times *)
requestScrolls(n) ==
  LET req == scrollToBottomTimes(n, [id |-> scrollRafIdRef, queued |-> scrollFrames])
  IN /\ scrollRafIdRef' = req.id
     /\ scrollFrames' = req.queued

(* the element useChat's messagesEndRef points to, had Chatbot rendered it *)
messagesEndRef_Attached == "div"

(* the element useChat's messagesEndRef points to: Chatbot renders none *)
messagesEndRef == NULL

(* scrollToBottom() of useChat: messagesEndRef.current?.scrollIntoView()   *)
(* in a container whose bottom is at bottom                                *)
scrollIntoView(bottom) ==
  IF messagesEndRef # NULL
    THEN /\ scrollTop' = bottom
         /\ IF scrollTop # bottom THEN scrollEvent(bottom)
                                  ELSE UNCHANGED scrollTimer
    ELSE UNCHANGED <<scrollTop, scrollTimer>>

(* the streaming effect of useStickyScroll for the options it was given:   *)
(* the new lastContentLengthRef, and whether it calls scrollToBottom       *)
effectContentLength(isStreaming, content) ==
  IF ~isStreaming THEN 0
  ELSE IF Len(content) > lastContentLengthRef THEN Len(content)
  ELSE lastContentLengthRef

effectScrolls(isStreaming, content) ==
  /\ isStreaming
  /\ Len(content) > lastContentLengthRef
  /\ ~isUserScrolledUpRef

(* the options of useStickyScroll: the session's, or the defaults *)
isStreamingOption == IF optionsPassed THEN chatState = CHAT_STATE.STREAMING ELSE FALSE
streamingContentOption(content) == IF optionsPassed THEN content ELSE <<>>

(* a chunk arrives and its frame publishes the longer streaming text; then *)
(* the effects of useChat, useStickyScroll and Chatbot that depend on the  *)
(* text run                                                                *)
ContentGrows ==
  /\ chatState = CHAT_STATE.STREAMING
  /\ Len(streamingContent) < MaxGrowths
  /\ InFlight(activeAbortController)
  /\ LET content == streamingContent \o ChunkAt(Len(streamingContent) + 1)
     IN /\ calls' = [calls EXCEPT ![activeAbortController].acc = content]
        /\ pendingChunkRef' = content
        /\ streamingContent' = content
        /\ lastContentLengthRef' =
             IF optionsPassed
               THEN effectContentLength(isStreamingOption, streamingContentOption(content))
               ELSE lastContentLengthRef
        /\ scrollIntoView(scrollHeight(content) - ClientHeight)
        /\ requestScrolls(Count(content # <<>>)
             + Count(optionsPassed /\ effectScrolls(isStreamingOption,
                                                    streamingContentOption(content))))
  /\ UNCHANGED <<apiKey, retryCount, clockVars, messages, chatState, error, inputValue, streamingMessageId,
                 rafIdRef, activeAbortController, sends, provVars, optionsPassed,
                 listenerAttached, isUserScrolledUpRef, lastScrollTopRef>>

(* the effects that run after a commit changed the list to ms while the    *)
(* session streams or not: useChat scrolls its end marker into view,       *)
(* Chatbot calls scrollToBottom() of the tracker for a non-empty list, and *)
(* the streaming effect of useStickyScroll sees an empty streaming text    *)
messagesEffects(ms, isStreaming) ==
  /\ scrollIntoView(scrollHeightOf(ms, <<>>) - ClientHeight)
  /\ requestScrolls(Count(Len(ms) > 0))
  /\ lastContentLengthRef' =
       IF optionsPassed THEN effectContentLength(isStreaming, <<>>)
       ELSE lastContentLengthRef

(* forceScrollToBottom() of useStickyScroll *)
forceScrollToBottom ==
  /\ isUserScrolledUpRef' = FALSE
  /\ requestScrolls(1)

(* ChatInput.handleSubmit for a text the user typed: onSubmit is           *)
(* sendMessage; the commit that appends the user message runs the effects  *)
UserSubmits ==
  /\ Trim(SubmittedText) # <<>>
  /\ chatState # CHAT_STATE.LOADING /\ chatState # CHAT_STATE.STREAMING
  /\ hasValidApiKey(apiKey)
  /\ sendMessage(SubmittedText, messages)
  /\ messagesEffects(messages', TRUE)
  /\ UNCHANGED <<provVars, optionsPassed, listenerAttached, isUserScrolledUpRef,
                 lastScrollTopRef>>

(* the stream of the session ends: onComplete commits the bot message and  *)
(* the commit runs the effects                                             *)
StreamingEnds ==
  /\ chatState = CHAT_STATE.STREAMING
  /\ InFlight(activeAbortController)
  /\ calls' = [calls EXCEPT ![activeAbortController] = DoneCall]
  /\ activeAbortController' = NoController
  /\ onComplete(calls[activeAbortController].sid, calls[activeAbortController].acc)
  /\ messagesEffects(messages', FALSE)
  /\ UNCHANGED <<apiKey, retryCount, clockVars, inputValue, pendingChunkRef, rafIdRef, sends, provVars,
                 optionsPassed, listenerAttached, isUserScrolledUpRef, lastScrollTopRef>>

(* the configured application after its welcome list is shown; a host may  *)
(* pass the options, and may render the container in the commit that       *)
(* mounts the hook (Chatbot does neither)                                  *)
ScrollInit ==
  /\ apiKey = "valid"
  /\ messages = WELCOME_MESSAGES
  /\ chatState = CHAT_STATE.IDLE
  /\ error = NULL
  /\ inputValue = <<>>
  /\ streamingContent = <<>>
  /\ streamingMessageId = NoId
  /\ pendingChunkRef = <<>>
  /\ rafIdRef = FALSE
  /\ activeAbortController = NoController
  /\ calls = [c \in CallIds |-> IdleCall]
  /\ sends = 0
  /\ NoCallObserved
  /\ ClockStarted
  /\ optionsPassed \in BOOLEAN
  /\ listenerAttached \in BOOLEAN
  /\ scrollTop = 0
  /\ isUserScrolledUpRef = FALSE
  /\ lastScrollTopRef = 0
  /\ scrollTimeoutRef = NoTimeout
  /\ scrollCheckDue = NoTimeout
  /\ scrollRafIdRef = FALSE
  /\ scrollFrames = 0
  /\ lastContentLengthRef = 0

ScrollNext ==
  \/ UserSubmits
  \/ ContentGrows
  \/ StreamingEnds
  \/ UserScrolls
  \/ ScrollCheck
  \/ ScrollFrame

ScrollSpec == ScrollInit /\ [][ScrollNext]_vars

(* ------------------- texts at the limit of the length ------------------- *)
(* The hook driven with texts whose length is at the configured maximum:   *)
(* handleInputChange takes any text (the cut at the maximum is ChatInput's)*)
INPUT_VALIDATION == [MAX_LENGTH |-> 10000, MIN_LENGTH |-> 1]

TextOfLength(n) == [i \in 1..n |-> "a"]

Padded(text) == <<" ">> \o text \o <<" ">>

LongTexts ==
  {TextOfLength(INPUT_VALIDATION.MAX_LENGTH - 1),
   TextOfLength(INPUT_VALIDATION.MAX_LENGTH),
   TextOfLength(INPUT_VALIDATION.MAX_LENGTH + 1),
   Padded(TextOfLength(INPUT_VALIDATION.MAX_LENGTH - 1)),
   Padded(TextOfLength(INPUT_VALIDATION.MAX_LENGTH)),
   Padded(TextOfLength(INPUT_VALIDATION.MAX_LENGTH + 1))}

(* handleInputChange(value) for a text at the limit *)
HandleLongInputChange ==
  \E value \in LongTexts :
    /\ value # inputValue
    /\ inputValue' = value
    /\ error' = NULL
    /\ UNCHANGED <<apiKey, retryCount, clockVars, auxVars, messages, chatState, streamingContent, streamingMessageId,
                   pendingChunkRef, rafIdRef, activeAbortController, calls, sends>>

LongNext ==
  \/ HandleLongInputChange
  \/ SendMessage
  \/ \E c \in CallIds : StreamEnd(c)

LongSpec == Init /\ [][LongNext]_vars

(* --------------------- the interface Chatbot renders -------------------- *)
(* What a user can do through the components Chatbot renders: type into    *)
(* the textarea and submit the form of ChatInput, retry or dismiss through *)
(* the ErrorBanner. ChatInput takes no onCancel, and nothing is wired to   *)
(* clearMessages.                                                          *)
(* isLoading that is true in the LOADING state only *)
isLoading_LoadingOnly == chatState = CHAT_STATE.LOADING

isLoading == chatState = CHAT_STATE.LOADING \/ chatState = CHAT_STATE.STREAMING

isDisabled == ~hasValidApiKey(apiKey)

(* ChatInput.handleChange: the textarea is disabled while loading or when  *)
(* the chat is not configured; every text of the model is within the       *)
(* maximum length                                                          *)
UserTypes ==
  /\ ~(isLoading \/ isDisabled)
  /\ HandleInputChange

(* ChatInput.handleSubmit (the form's submit, or Enter in the textarea)    *)
ChatSubmit ==
  IF Trim(inputValue) = <<>> \/ isLoading \/ isDisabled
    THEN UNCHANGED vars
    ELSE sendMessage(inputValue, messages) /\ UNCHANGED auxVars

(* ErrorBanner onDismiss: handleDismissError *)
DismissError ==
  /\ error # NULL
  /\ error' = NULL
  /\ UNCHANGED <<apiKey, retryCount, clockVars, auxVars, messages, chatState, inputValue, streamingContent,
                 streamingMessageId, pendingChunkRef, rafIdRef, activeAbortController,
                 calls, sends>>

(* ErrorBanner onRetry *)
BannerRetry ==
  /\ error # NULL
  /\ RetryLastMessage

(* the application after construction, for every kind of key *)
UiInit ==
  /\ apiKey \in ApiKeys
  /\ messages = IF hasValidApiKey(apiKey) THEN WELCOME_MESSAGES ELSE <<>>
  /\ chatState = CHAT_STATE.IDLE
  /\ error = NULL
  /\ inputValue = <<>>
  /\ streamingContent = <<>>
  /\ streamingMessageId = NoId
  /\ pendingChunkRef = <<>>
  /\ rafIdRef = FALSE
  /\ activeAbortController = NoController
  /\ calls = [c \in CallIds |-> IdleCall]
  /\ sends = 0
  /\ NoCallObserved
  /\ ClockStarted
  /\ StickyScrollMounted

UiNext ==
  \/ UserTypes
  \/ ChatSubmit
  \/ DismissError
  \/ BannerRetry
  \/ Flush
  \/ \E c \in CallIds : StreamChunk(c)
  \/ \E c \in CallIds : StreamEnd(c)
  \/ \E c \in CallIds : ModelFails(c)
  \/ \E c \in CallIds : ModelAborts(c)

UiSpec == UiInit /\ [][UiNext]_vars

(* ------------------- the flush buffer against the clock ----------------- *)
(* Time advances in ticks; the browser runs the callbacks given to         *)
(* requestAnimationFrame at the next frame, every FrameMs.                 *)
TickMs == 8
FrameMs == 16
MaxNow == 80

(* the interval between flushes the documentation speaks of *)
FLUSH_INTERVAL == 50

nextTime == now + TickMs

(* the frame request of updateStreamingContent made whether or not one is  *)
(* pending                                                                 *)
requestFlush_Unguarded == flushFrames' = flushFrames + 1

(* if (!rafIdRef.current) rafIdRef.current = requestAnimationFrame(...)    *)
requestFlush ==
  IF ~rafIdRef THEN flushFrames' = flushFrames + 1 ELSE UNCHANGED flushFrames

(* the stream of the session yields one chunk: onChunk calls               *)
(* updateStreamingContent with the accumulated text                        *)
TimedChunk ==
  /\ activeAbortController # NoController
  /\ InFlight(activeAbortController)
  /\ ~abortSeen
  /\ Len(calls[activeAbortController].acc) < MaxChunks
  /\ LET accumulatedText == calls[activeAbortController].acc
                              \o ChunkAt(Len(calls[activeAbortController].acc) + 1)
     IN /\ calls' = [calls EXCEPT ![activeAbortController].acc = accumulatedText]
        /\ updateStreamingContent(accumulatedText)
  /\ requestFlush
  /\ requests' = Append(requests, now)
  /\ UNCHANGED <<apiKey, retryCount, auxVars, messages, chatState, error, inputValue, streamingContent,
                 streamingMessageId, activeAbortController, sends, now, flushes>>

(* time passes and no callback is due *)
Tick ==
  /\ now < MaxNow
  /\ ~(flushFrames > 0 /\ nextTime % FrameMs = 0)
  /\ now' = nextTime
  /\ UNCHANGED <<apiKey, retryCount, auxVars, messages, chatState, error, inputValue, streamingContent,
                 streamingMessageId, pendingChunkRef, rafIdRef, activeAbortController,
                 calls, sends, requests, flushes, flushFrames>>

(* the next frame comes and runs the callback of updateStreamingContent *)
FlushFrame ==
  /\ now < MaxNow
  /\ flushFrames > 0
  /\ nextTime % FrameMs = 0
  /\ now' = nextTime
  /\ streamingContent' = pendingChunkRef
  /\ rafIdRef' = FALSE
  /\ flushFrames' = flushFrames - 1
  /\ flushes' = Append(flushes, nextTime)
  /\ UNCHANGED <<apiKey, retryCount, auxVars, messages, chatState, error, inputValue,
                 streamingMessageId, pendingChunkRef, activeAbortController, calls,
                 sends, requests>>

FlushNext ==
  \/ HandleInputChange
  \/ SendMessage
  \/ TimedChunk
  \/ Tick
  \/ FlushFrame
  \/ \E c \in CallIds : StreamEnd(c)

FlushSpec == Init /\ [][FlushNext]_vars

(* ---------------- the debounce of the scroll check, in time ------------- *)
(* handleScroll and its timer with a clock: a conversation that overflows  *)
(* the container is on screen, the user scrolls it at multiples of         *)
(* ScrollTickMs, and the timer fires when the clock reaches its due time.  *)
ScrollTickMs == 50
MaxScrollNow == 300

(* the list after one finished exchange *)
ShownExchange ==
  LET withUser == Append(WELCOME_MESSAGES, createUserMessage(SubmittedText, WELCOME_MESSAGES))
  IN Append(withUser, createBotMessage(ChunkAt(1) \o ChunkAt(2), withUser))

(* the timer of handleScroll fires at its due time *)
ScrollTimerFires ==
  /\ now = scrollCheckDue
  /\ ScrollCheck

(* time passes, but not beyond the due time of a pending timer *)
ScrollTick ==
  /\ now < MaxScrollNow
  /\ scrollCheckDue # NoTimeout => now + ScrollTickMs <= scrollCheckDue
  /\ now' = now + ScrollTickMs
  /\ UNCHANGED <<apiKey, retryCount, auxVars, messages, chatState, error, inputValue, streamingContent,
                 streamingMessageId, pendingChunkRef, rafIdRef, activeAbortController,
                 calls, sends, requests, flushes, flushFrames>>

DebounceInit ==
  /\ apiKey = "valid"
  /\ messages = ShownExchange
  /\ chatState = CHAT_STATE.SUCCESS
  /\ error = NULL
  /\ inputValue = <<>>
  /\ streamingContent = <<>>
  /\ streamingMessageId = NoId
  /\ pendingChunkRef = <<>>
  /\ rafIdRef = FALSE
  /\ activeAbortController = NoController
  /\ calls = [c \in CallIds |-> IF c = 1 THEN DoneCall ELSE IdleCall]
  /\ sends = 1
  /\ NoCallObserved
  /\ ClockStarted
  /\ optionsPassed \in BOOLEAN
  /\ listenerAttached \in BOOLEAN
  /\ scrollTop = bottomOf(<<>>)
  /\ isUserScrolledUpRef = FALSE
  /\ lastScrollTopRef = bottomOf(<<>>)
  /\ scrollTimeoutRef = NoTimeout
  /\ scrollCheckDue = NoTimeout
  /\ scrollRafIdRef = FALSE
  /\ scrollFrames = 0
  /\ lastContentLengthRef = 0

DebounceNext ==
  \/ UserScrolls
  \/ ScrollTimerFires
  \/ ScrollTick

DebounceSpec == DebounceInit /\ [][DebounceNext]_vars

(* ----------------------- the classification of errors ------------------- *)
(* A failing call of the provider, for every upstream message: a message   *)
(* is the set of the patterns its lower-cased text includes, the empty set *)
(* for a text that includes none and for an error without a message.       *)
MessagePatterns ==
  {"api key", "api_key", "invalid", "quota", "limit exceeded", "rate", "429",
   "network", "fetch", "timeout"}

(* generateStreamingResponse with every model failing with lastError: the  *)
(* categorized error is thrown                                             *)
CallFails ==
  /\ outcome = Pending
  /\ method' = "generateStreamingResponse"
  /\ outcome' = Threw(IF ~isConfigured(apiKey) THEN MissingKeyError ELSE _handleError(lastError))
  /\ UNCHANGED <<apiKey, retryCount, clockVars, scrollVars, messages, chatState, error, inputValue,
                 streamingContent, streamingMessageId, pendingChunkRef, rafIdRef,
                 activeAbortController, calls, sends, lastError, delivered>>

ClassifyInit ==
  /\ apiKey \in {"missing", "valid"}
  /\ messages = IF hasValidApiKey(apiKey) THEN WELCOME_MESSAGES ELSE <<>>
  /\ chatState = CHAT_STATE.IDLE
  /\ error = NULL
  /\ inputValue = <<>>
  /\ streamingContent = <<>>
  /\ streamingMessageId = NoId
  /\ pendingChunkRef = <<>>
  /\ rafIdRef = FALSE
  /\ activeAbortController = NoController
  /\ calls = [c \in CallIds |-> IdleCall]
  /\ sends = 0
  /\ method = "none"
  /\ lastError \in SUBSET MessagePatterns
  /\ delivered = <<>>
  /\ outcome = Pending
  /\ retryCount = 0
  /\ ClockStarted
  /\ StickyScrollMounted

ClassifyNext == CallFails

ClassifySpec == ClassifyInit /\ [][ClassifyNext]_vars

(* ------------------- useStickyScroll with its whole API ----------------- *)
(* The scroll tracker driven as in ScrollSpec, by a host that also calls   *)
(* forceScrollToBottom().                                                  *)
ForceScrollToBottom ==
  /\ forceScrollToBottom
  /\ UNCHANGED <<apiKey, retryCount, clockVars, messages, chatState, error, inputValue, streamingContent,
                 streamingMessageId, pendingChunkRef, rafIdRef, activeAbortController,
                 calls, sends, provVars, optionsPassed, listenerAttached, scrollTop,
                 scrollTimer, lastScrollTopRef, lastContentLengthRef>>

StickyNext ==
  \/ ScrollNext
  \/ ForceScrollToBottom

StickySpec == ScrollInit /\ [][StickyNext]_vars

(* ------------------ the retrying generateResponse ----------------------- *)
(* generateResponse(prompt, options) of the provider that repeats a failed *)
(* request: one model, options.retryCount counts the repetitions. The call *)
(* is calls[TheCall]; the text of the attempt with retryCount n is         *)
(* ResponseText(n + 1).                                                    *)
API_CONFIG == [MAX_RETRIES |-> 3, RETRY_DELAY |-> 1000]

(* the patterns an upstream message of this variant may include *)
RetryMessagePatterns == {"network", "timeout", "503", "429", "quota", "invalid"}

_isRetryableError(e) == e \cap {"network", "timeout", "503", "429"} # {}

(* the test before a repetition that admits one repetition more *)
mayRetry_Inclusive(e, count) == _isRetryableError(e) /\ count <= API_CONFIG.MAX_RETRIES

(* the test before a repetition *)
mayRetry(e, count) == _isRetryableError(e) /\ count < API_CONFIG.MAX_RETRIES

(* generateResponse(prompt) is called, up to the await of generateContent *)
GenerateResponseRetrying ==
  /\ calls[TheCall].pc = "none"
  /\ method' = "retrying"
  /\ lastError' = NoError
  /\ delivered' = <<>>
  /\ retryCount' = 0
  /\ IF ~isConfigured(apiKey)
       THEN /\ outcome' = Threw(MissingKeyError)
            /\ calls' = [calls EXCEPT ![TheCall] = DoneCall]
       ELSE /\ outcome' = Pending
            /\ calls' = [calls EXCEPT ![TheCall] = [IdleCall EXCEPT !.pc = "attempt"]]
  /\ UNCHANGED <<apiKey, clockVars, hookVars, activeAbortController>>

(* generateContent of the current attempt resolves: its text is returned   *)
(* through the chain of recursive calls                                    *)
AttemptResolves ==
  /\ calls[TheCall].pc = "attempt"
  /\ outcome' = Returned(ResponseText(retryCount + 1))
  /\ calls' = [calls EXCEPT ![TheCall] = DoneCall]
  /\ UNCHANGED <<apiKey, retryCount, clockVars, hookVars, activeAbortController, method,
                 lastError, delivered>>

(* generateContent of the current attempt throws: the catch block either   *)
(* starts the delay before the next attempt or throws the categorized error*)
AttemptThrows ==
  /\ calls[TheCall].pc = "attempt"
  /\ \E e \in SUBSET RetryMessagePatterns :
       /\ lastError' = e
       /\ IF mayRetry(e, retryCount)
            THEN /\ calls' = [calls EXCEPT ![TheCall].pc = "delay"]
                 /\ UNCHANGED outcome
            ELSE /\ calls' = [calls EXCEPT ![TheCall] = DoneCall]
                 /\ outcome' = Threw(_handleError(e))
  /\ UNCHANGED <<apiKey, retryCount, clockVars, hookVars, activeAbortController, method,
                 delivered>>

(* the delay RETRY_DELAY * (retryCount + 1) is over: generateResponse is   *)
(* called with retryCount + 1 (the key is still configured)                *)
DelayElapses ==
  /\ calls[TheCall].pc = "delay"
  /\ retryCount' = retryCount + 1
  /\ calls' = [calls EXCEPT ![TheCall].pc = "attempt"]
  /\ UNCHANGED <<apiKey, clockVars, hookVars, activeAbortController, method, lastError,
                 delivered, outcome>>

BackoffNext ==
  \/ GenerateResponseRetrying
  \/ AttemptResolves
  \/ AttemptThrows
  \/ DelayElapses

(* every await of the call settles: the promise of the SDK and the timer   *)
(* of the delay                                                            *)
BackoffSpec == Init /\ [][BackoffNext]_vars /\ WF_vars(BackoffNext)

(* ======================== properties of the model ======================= *)
EmptyError == "Message cannot be empty"

(* a callback-bearing step of call c *)
CallStep(c) == StreamChunk(c) \/ StreamEnd(c) \/ ModelFails(c)

(* the indexes of the messages a step appended *)
Appended == {i \in 1..Len(messages') : i > Len(messages)}

(* C1: sendMessage on a text that is empty or only whitespace sets the     *)
(* validation error and changes nothing else: the list, the placeholder id, *)
(* the session state and the provider (no call, no controller) stay as     *)
(* they were.                                                              *)
C1_BlankInputRejected ==
  [][(SendMessage /\ Trim(inputValue) = <<>>) =>
       /\ error' = EmptyError
       /\ UNCHANGED <<messages, streamingMessageId, streamingContent, chatState, calls,
                      activeAbortController, sends, pendingChunkRef, rafIdRef, inputValue>>]_vars

C1_Witness ==
  /\ inputValue = <<" ">>
  /\ error = EmptyError
  /\ sends = 0
  /\ chatState = CHAT_STATE.IDLE

(* C2 as stated: from Idle with an empty list, sending the text T of the   *)
(* input box leaves exactly the user message with text T, and the          *)
(* completion of that session appends the bot message with the final text  *)
(* under the placeholder id and clears the streaming content and the id.   *)
SendFromEmptyIdle ==
  /\ SendMessage
  /\ chatState = CHAT_STATE.IDLE
  /\ messages = <<>>
  /\ validateMessage(inputValue, DefaultMaxLength).isValid
  /\ isConfigured(apiKey)

CompletionCommits ==
  \A c \in CallIds :
    (/\ StreamEnd(c)
     /\ calls[c].sid = streamingMessageId
     /\ Len(messages) = 1
     /\ messages[1].sender = SENDER.USER) =>
      /\ messages' = Append(messages, createMessage(calls[c].acc, SENDER.BOT, calls[c].sid,
                                                    MESSAGE_STATUS.SENT))
      /\ streamingContent' = <<>>
      /\ streamingMessageId' = NoId

C2_UserTextAsTyped ==
  [][/\ SendFromEmptyIdle =>
          /\ Len(messages') = 1
          /\ messages'[1].sender = SENDER.USER
          /\ messages'[1].text = inputValue
     /\ CompletionCommits]_vars

(* C2 amended: the user message carries T with its surrounding whitespace  *)
(* trimmed; the rest as stated.                                            *)
C2_UserTextTrimmed ==
  [][/\ SendFromEmptyIdle =>
          /\ Len(messages') = 1
          /\ messages'[1].sender = SENDER.USER
          /\ messages'[1].text = Trim(inputValue)
          /\ streamingMessageId' # NoId
     /\ CompletionCommits]_vars

C2_Witness ==
  /\ Len(messages) = 2
  /\ messages[1].sender = SENDER.USER
  /\ messages[1].text = <<"a">>
  /\ messages[2].sender = SENDER.BOT
  /\ messages[2].id[1] = "streaming"
  /\ messages[2].text = <<" ", "a">>
  /\ streamingContent = <<>>
  /\ streamingMessageId = NoId
  /\ chatState = CHAT_STATE.SUCCESS

(* C3: cancelling a Streaming session commits exactly one bot message whose *)
(* text is the buffered text trimmed when that is non-empty, and none      *)
(* otherwise; the published text and the placeholder are cleared and the   *)
(* state is Idle.                                                          *)
C3_CancelCommitsBuffer ==
  [][(CancelStreaming /\ chatState = CHAT_STATE.STREAMING) =>
       /\ IF Trim(pendingChunkRef) # <<>>
            THEN /\ Len(messages') = Len(messages) + 1
                 /\ SubSeq(messages', 1, Len(messages)) = messages
                 /\ messages'[Len(messages')].sender = SENDER.BOT
                 /\ messages'[Len(messages')].text = Trim(pendingChunkRef)
            ELSE messages' = messages
       /\ streamingContent' = <<>>
       /\ streamingMessageId' = NoId
       /\ chatState' = CHAT_STATE.IDLE]_vars

(* C4: a step that appends a message under a placeholder id finds no       *)
(* message with that id in the list: one session commits at most one bot   *)
(* message.                                                                *)
C4_OneCommitPerSession ==
  [][\A i \in Appended :
       messages'[i].id[1] = "streaming" =>
         \A j \in 1..Len(messages) : messages[j].id # messages'[i].id]_vars

(* C5: once a newer session has started, no step of an earlier session's   *)
(* call changes the buffer, the published text, the list or the state.     *)
C5_EarlierSessionSilent ==
  [][\A c \in CallIds :
       (c < sends /\ CallStep(c)) =>
         UNCHANGED <<pendingChunkRef, streamingContent, messages, chatState>>]_vars

(* C6: no step of a call whose controller was aborted changes the buffer,  *)
(* requests a frame, appends to the list or changes the state.             *)
C6_AbortedCallIgnored ==
  [][\A c \in CallIds :
       (calls[c].aborted /\ CallStep(c)) =>
         UNCHANGED <<pendingChunkRef, rafIdRef, messages, chatState>>]_vars

(* C7: a frame that fires after the session ended, with no call left in   *)
(* flight that could have requested it since, publishes nothing.           *)
C7_NoFlushAfterEnd ==
  [][(Flush /\ streamingMessageId = NoId /\ \A c \in CallIds : ~InFlight(c)) =>
       UNCHANGED streamingContent]_vars

(* C8: during a session each published value extends the previous one.     *)
C8_PublishedNeverRegresses ==
  [][(Flush /\ chatState = CHAT_STATE.STREAMING) =>
       IsPrefix(streamingContent, streamingContent')]_vars

(* C9: while the session stays active and its latest accumulated text is   *)
(* in the buffer, a frame eventually publishes that text.                  *)
Accumulated ==
  /\ chatState = CHAT_STATE.STREAMING
  /\ \E c \in CallIds :
       /\ InFlight(c)
       /\ calls[c].sid = streamingMessageId
       /\ calls[c].acc # <<>>
       /\ pendingChunkRef = calls[c].acc

C9_EventuallyPublished ==
  Accumulated ~> (streamingContent = pendingChunkRef \/ ~Accumulated)

C9_Witness ==
  /\ Accumulated
  /\ streamingContent = pendingChunkRef
  /\ Len(streamingContent) = MaxChunks
  /\ ~rafIdRef

(* C10: when the last model of the active session's call fails, the text   *)
(* accumulated so far is committed as a message if there is any, and the   *)
(* generic apology otherwise.                                              *)
C10_PartialTextKept ==
  [][\A c \in CallIds :
       (/\ ModelFails(c)
        /\ calls[c].model = NumModels
        /\ calls[c].sid = streamingMessageId) =>
         IF calls[c].acc # <<>>
           THEN \E i \in Appended : messages'[i].text = calls[c].acc
           ELSE \E i \in Appended : messages'[i].text = ErrorText]_vars

(* C11: a failed send, reported by the provider after its last model       *)
(* failed, appends exactly one bot message and sets the error string to    *)
(* the message of the categorized error.                                   *)
C11_OneErrorMessagePerFailure ==
  [][\A c \in CallIds :
       (ModelFails(c) /\ calls[c].model = NumModels) =>
         /\ Cardinality(Appended) = 1
         /\ messages'[Len(messages')].sender = SENDER.BOT
         /\ \E e \in UpstreamErrors : error' = _handleError(e).message]_vars

(* no step of the program is pending: no call in flight, no frame requested *)
Quiescent == ~rafIdRef /\ \A c \in CallIds : ~InFlight(c)

(* C12: the session state returns to Idle after every outcome without a    *)
(* further user action: once no call is in flight and no frame is pending, *)
(* nothing but a user action can change the state, so it is Idle by then.  *)
C12_SettlesToIdle ==
  Quiescent => chatState = CHAT_STATE.IDLE

(* a session was ended by an error or by a cancellation and no send has    *)
(* started a new one since                                                 *)
EndedByErrorOrCancel ==
  /\ sends > 0
  /\ chatState \in {CHAT_STATE.ERROR, CHAT_STATE.IDLE}

(* C13: after a session ended by error or cancel and before the next send, *)
(* the published streaming content is empty and the placeholder id is null. *)
C13_NoOrphanedPlaceholder ==
  EndedByErrorOrCancel => (streamingContent = <<>> /\ streamingMessageId = NoId)

(* C14: retryLastMessage invoked in a state other than Error changes       *)
(* nothing: the list, the state, the error string, the streaming buffer    *)
(* and the published text stay as they were and the provider gets no call. *)
C14_RetryOutsideErrorNoOp ==
  [][(RetryLastMessage /\ chatState # CHAT_STATE.ERROR) =>
       UNCHANGED <<messages, chatState, error, streamingContent, streamingMessageId,
                   pendingChunkRef, rafIdRef, calls, activeAbortController, sends>>]_vars

(* a completed session with a user message in the list that a retry       *)
(* could resubmit                                                          *)
C14_Witness ==
  /\ chatState = CHAT_STATE.SUCCESS
  /\ UserIndexes(messages) # {}
  /\ sends < MaxSessions
  /\ streamingMessageId = NoId

(* the message m does not carry the error status *)
NotError(m) == m.status # MESSAGE_STATUS.ERROR

(* C15: retryLastMessage invoked in Error, with a user message in the      *)
(* list, leaves the messages without error status in their order, followed *)
(* by a new user message that carries the text of the most recent user     *)
(* message, and starts one session; with no user message in the list it    *)
(* starts no session and changes nothing.                                  *)
C15_RetryResubmitsLastUserText ==
  [][(RetryLastMessage /\ chatState = CHAT_STATE.ERROR) =>
       IF \E i \in 1..Len(messages) : messages[i].sender = SENDER.USER
         THEN LET kept == SelectSeq(messages, NotError)
                  last == CHOOSE i \in 1..Len(messages) :
                            /\ messages[i].sender = SENDER.USER
                            /\ \A j \in (i + 1)..Len(messages) : messages[j].sender # SENDER.USER
              IN /\ Len(messages') > Len(kept)
                 /\ SubSeq(messages', 1, Len(kept)) = kept
                 /\ messages'[Len(kept) + 1].sender = SENDER.USER
                 /\ messages'[Len(kept) + 1].text = messages[last].text
                 /\ sends' = sends + 1
                 /\ calls'[sends'].pc # "none"
         ELSE UNCHANGED <<messages, chatState, error, calls, sends, activeAbortController>>]_vars

(* the retry after a second failed send, of the text "a", with the key     *)
(* missing: the old error messages are gone and the text "a" was resent.   *)
C15_Witness ==
  /\ Len(messages) = 5
  /\ messages[1].text = EarlierText
  /\ messages[2].sender = SENDER.USER /\ messages[2].text = <<"a">>
  /\ messages[3].sender = SENDER.USER /\ messages[3].text = <<"a">>
  /\ messages[4].status = MESSAGE_STATUS.ERROR
  /\ messages[5].status = MESSAGE_STATUS.ERROR
  /\ sends = 2

C17_FirstChunkWins ==
  [][\A c \in CallIds :
       (InFlight(c) /\ calls[c].acc # <<>> /\ calls'[c].pc = "streaming") =>
         /\ calls'[c].model = calls[c].model
         /\ IsPrefix(calls[c].acc, calls'[c].acc)]_vars

(* the positions of the callback named cb in a list of recorded callbacks *)
CallbacksOf(log, cb) == {i \in 1..Len(log) : log[i].callback = cb}

ErrorTypeNames == {ERROR_TYPES[k] : k \in DOMAIN ERROR_TYPES}

(* C18: when the last model of a streaming call fails without cancellation *)
(* the call invokes onError, for the only time, with the categorized form  *)
(* of that failure, throws the same error and has invoked no onComplete;   *)
(* a one-shot call returns the text of the model whose request resolved,   *)
(* the first to do so, and throws, the categorized error of the last       *)
(* failure, only by the failure of the last model.                         *)
C18_ExhaustionReportsOnce ==
  [][/\ (ModelThrows /\ calls[TheCall].model = NumModels) =>
          /\ outcome'.kind = "threw"
          /\ outcome'.error = _handleError(lastError')
          /\ outcome'.error.type \in ErrorTypeNames
          /\ delivered' = Append(delivered, onErrorCall(outcome'.error))
          /\ Cardinality(CallbacksOf(delivered', "onError")) = 1
          /\ CallbacksOf(delivered', "onComplete") = {}
     /\ ContentResolves =>
          /\ outcome'.kind = "returned"
          /\ outcome'.value = ResponseText(calls[TheCall].model)
     /\ (method = "once" /\ outcome.kind = "pending" /\ outcome'.kind = "threw") =>
          /\ calls[TheCall].model = NumModels
          /\ ContentThrows
          /\ outcome'.error = _handleError(lastError')
          /\ outcome'.error.type \in ErrorTypeNames]_vars

(* a streaming call whose last model failed after a chunk was delivered *)
C18_Witness ==
  /\ method = "stream"
  /\ outcome.kind = "threw"
  /\ isConfigured(apiKey)
  /\ Len(delivered) = 2
  /\ delivered[1].callback = "onChunk"
  /\ delivered[2].callback = "onError"
  /\ lastError = {"network"}

(* C19: cancelStream() called with no controller held changes nothing, for *)
(* the provider and for its caller, and after any cancelStream() a further *)
(* one changes nothing: twice in a row is the same as once.                *)
C19_CancelStreamIdempotent ==
  [][CancelStream =>
       /\ activeAbortController = NoController => UNCHANGED vars
       /\ activeAbortController' = NoController
       /\ cancelStream(calls', activeAbortController') = calls'
       /\ UNCHANGED <<outcome, delivered>>]_vars

(* a stream cancelled while in flight: its signal is aborted and the slot  *)
(* is empty, so the next cancelStream() finds no active stream             *)
C19_Witness ==
  /\ method = "stream"
  /\ InFlight(TheCall)
  /\ calls[TheCall].aborted
  /\ activeAbortController = NoController

(* C20: while a session streams and the check has recorded that the user   *)
(* scrolled up (isUserScrolledUpRef is true), neither the growth of the    *)
(* streaming text nor the scroll adjustment it requests moves the scroll   *)
(* position; every growth requests an adjustment, a requested adjustment   *)
(* is dropped by nothing but its own run, and once the check has recorded  *)
(* the return to the bottom (the flag is false) the adjustment puts the    *)
(* view at the bottom.                                                     *)
C20_StickyScrollRespectsUser ==
  [][/\ (isUserScrolledUpRef /\ (ContentGrows \/ ScrollFrame)) => UNCHANGED scrollTop
     /\ ContentGrows => (scrollRafIdRef' /\ UNCHANGED scrollTop)
     /\ (scrollRafIdRef /\ ~scrollRafIdRef') => ScrollFrame
     /\ (ScrollFrame /\ ~isUserScrolledUpRef) =>
          scrollTop' = scrollHeight(streamingContent) - ClientHeight]_vars

(* the user is recorded as scrolled up, more than 50px from the bottom;    *)
(* the text has grown again and the adjustment has run: the view stayed    *)
C20_Witness ==
  /\ isUserScrolledUpRef
  /\ Len(streamingContent) = 2
  /\ scrollTop = 0
  /\ lastScrollTopRef = 0
  /\ scrollTimeoutRef = NoTimeout
  /\ ~scrollRafIdRef
  /\ scrollHeight(streamingContent) - scrollTop - ClientHeight > SCROLL_THRESHOLD

C22_AutoScrollGated ==
  [][scrollTop' # scrollTop => (UserScrolls \/ (ScrollFrame /\ ~isUserScrolledUpRef))]_vars

(* the user is recorded as scrolled up; since then a second message was    *)
(* sent, its reply grew and every requested adjustment has run: the view   *)
(* is where the user left it                                               *)
C22_Witness ==
  /\ isUserScrolledUpRef
  /\ sends = 2
  /\ Len(streamingContent) = 1
  /\ scrollFrames = 0
  /\ scrollTimeoutRef = NoTimeout
  /\ scrollTop = 0
  /\ ~isAtBottom(streamingContent, scrollTop)

(* C23: the frame of scrollToBottom moves the scroll position only if      *)
(* isUserScrolledUpRef is false when it runs, and at most one frame is     *)
(* requested at any time, however many times scrollToBottom was called     *)
(* since the last frame ran.                                               *)
C23_OneGatedAdjustment ==
  [][/\ scrollFrames' <= 1
     /\ scrollRafIdRef' <=> (scrollFrames' = 1)
     /\ (ScrollFrame /\ isUserScrolledUpRef) => UNCHANGED scrollTop]_vars

(* scrollToBottom was called for the message sent and for each of the two  *)
(* growths of the streaming text, no frame has run yet (the view is still  *)
(* at the top with no scroll recorded): one frame is requested             *)
C23_Witness ==
  /\ listenerAttached
  /\ ~isUserScrolledUpRef
  /\ scrollTop = 0
  /\ scrollTimeoutRef = NoTimeout
  /\ Len(streamingContent) = 2
  /\ scrollRafIdRef
  /\ scrollFrames = 1

(* C24: when the debounced scroll check fires, a position within 50px of   *)
(* the bottom clears isUserScrolledUpRef whatever the direction; otherwise *)
(* a sampled position lower than the previous sample sets it.              *)
C24_ScrollCheckRecords ==
  [][ScrollCheck =>
       LET atBottom == scrollHeight(streamingContent) - scrollTop - ClientHeight
                         <= SCROLL_THRESHOLD
       IN /\ atBottom => ~isUserScrolledUpRef'
          /\ (~atBottom /\ scrollTimeoutRef < lastScrollTopRef) => isUserScrolledUpRef']_vars

(* after a reply completed the user scrolled up, away from the bottom, and *)
(* the check that fired recorded it                                        *)
C24_Witness ==
  /\ chatState = CHAT_STATE.SUCCESS
  /\ isUserScrolledUpRef
  /\ scrollTimeoutRef = NoTimeout
  /\ lastScrollTopRef = scrollTop
  /\ scrollTop = ScrollStep
  /\ scrollHeight(streamingContent) - scrollTop - ClientHeight > SCROLL_THRESHOLD

(* C26: a send whose text, once trimmed, is longer than the maximum of     *)
(* 10,000 characters sets the validation error and starts no session (no   *)
(* message, no provider call, state unchanged); a send whose trimmed text  *)
(* has exactly 10,000 characters starts a session whose user message is    *)
(* the trimmed text.                                                       *)
C26_LengthLimit ==
  [][SendMessage =>
       LET trimmed == Trim(inputValue)
       IN /\ Len(trimmed) > INPUT_VALIDATION.MAX_LENGTH =>
               /\ error' = "Message exceeds maxLength characters"
               /\ UNCHANGED <<messages, chatState, streamingMessageId, calls, sends,
                              activeAbortController>>
          /\ Len(trimmed) = INPUT_VALIDATION.MAX_LENGTH =>
               /\ sends' = sends + 1
               /\ Len(messages') > Len(messages)
               /\ messages'[Len(messages) + 1].sender = SENDER.USER
               /\ messages'[Len(messages) + 1].text = trimmed
               /\ calls'[sends'].pc # "none"]_vars

(* a text of 10,000 characters between two spaces was sent: its session    *)
(* streams and the user message holds the 10,000 characters; a longer text *)
(* typed since was refused                                                 *)
C26_Witness ==
  /\ sends = 1
  /\ chatState = CHAT_STATE.STREAMING
  /\ Len(messages[Len(messages)].text) = INPUT_VALIDATION.MAX_LENGTH
  /\ messages[Len(messages)].sender = SENDER.USER
  /\ Len(Trim(inputValue)) > INPUT_VALIDATION.MAX_LENGTH
  /\ error = "Message exceeds maxLength characters"

(* C25: with the API key absent or equal to the placeholder the interface  *)
(* stays disabled: isConfigured is false, and whatever the user does no    *)
(* session starts, the provider is never called, the conversation list     *)
(* stays empty and the error banner is never set.                          *)
C25_DisabledWithoutKey ==
  apiKey \in {"missing", "your_api_key_here"} =>
    /\ ~hasValidApiKey(apiKey)
    /\ isDisabled
    /\ ~ENABLED UserTypes
    /\ sends = 0
    /\ \A c \in CallIds : calls[c] = IdleCall
    /\ messages = <<>>
    /\ error = NULL
    /\ chatState = CHAT_STATE.IDLE

(* the application runs with the placeholder key: the form can be          *)
(* submitted, and does nothing                                             *)
C25_Witness ==
  /\ apiKey = "your_api_key_here"
  /\ isDisabled
  /\ ENABLED ChatSubmit
  /\ sends = 0

(* C27: two flushes are at least FLUSH_INTERVAL apart, and of two writes   *)
(* to the buffer less than FLUSH_INTERVAL apart exactly one flush happens  *)
(* within FLUSH_INTERVAL of the first: never two, and one once that time   *)
(* has passed.                                                             *)
FlushesWithin(t) ==
  {j \in DOMAIN flushes : t <= flushes[j] /\ flushes[j] <= t + FLUSH_INTERVAL}

C27_MinimumFlushInterval ==
  /\ \A j \in DOMAIN flushes :
       j > 1 => flushes[j] - flushes[j - 1] >= FLUSH_INTERVAL
  /\ \A i \in DOMAIN requests :
       (i > 1 /\ requests[i] - requests[i - 1] < FLUSH_INTERVAL) =>
         /\ Cardinality(FlushesWithin(requests[i - 1])) <= 1
         /\ now >= requests[i - 1] + FLUSH_INTERVAL =>
              Cardinality(FlushesWithin(requests[i - 1])) >= 1

(* C28: at most one flush callback is requested at any time: a write to    *)
(* the buffer made while one is pending requests nothing and only replaces *)
(* the buffered text; the flush clears the pending flag, so that the next  *)
(* write requests a callback again.                                        *)
C28_OneFlushPending ==
  [][/\ flushFrames' <= 1
     /\ rafIdRef' <=> (flushFrames' = 1)
     /\ (TimedChunk /\ rafIdRef) =>
          /\ flushFrames' = flushFrames
          /\ pendingChunkRef' = calls'[activeAbortController].acc
          /\ UNCHANGED streamingContent
     /\ FlushFrame => ~rafIdRef'
     /\ (TimedChunk /\ ~rafIdRef) => flushFrames' = 1]_vars

(* two writes were made before the first flush, which published the second *)
(* text, and a third write after it has requested a callback again         *)
C28_Witness ==
  /\ Len(requests) = 3
  /\ Len(flushes) = 1
  /\ requests[2] < flushes[1]
  /\ flushes[1] <= requests[3]
  /\ rafIdRef
  /\ flushFrames = 1
  /\ Len(streamingContent) = MaxChunks

(* C29: a user message once appended stays in the conversation list, in    *)
(* its place among the user messages, through every step of the hook and   *)
(* of the provider (completion, failure, cancellation, retry); only        *)
(* clearMessages removes it.                                               *)
UserMessages(ms) == SelectSeq(ms, LAMBDA m : m.sender = SENDER.USER)

C29_UserMessageKept ==
  [][ClearMessages \/ IsPrefix(UserMessages(messages), UserMessages(messages'))]_vars

(* a send failed, was retried, and the retry was cancelled after it had    *)
(* published text: the list holds the user message of the send and that of *)
(* the retry, then the finalized reply                                     *)
C29_Witness ==
  /\ apiKey = "valid"
  /\ sends = 2
  /\ chatState = CHAT_STATE.IDLE
  /\ Len(messages) = 4
  /\ messages[2].sender = SENDER.USER
  /\ messages[3].sender = SENDER.USER
  /\ messages[4].sender = SENDER.BOT
  /\ messages[4].id = <<"streaming", DateNow(2)>>

(* C30: the messages of the conversation list have pairwise distinct ids,  *)
(* the bot messages committed under a placeholder id included.             *)
C30_UniqueIds ==
  \A i, j \in DOMAIN messages : i # j => messages[i].id # messages[j].id

(* C31: once cancelStream() was called while the streaming call is in      *)
(* flight, the call delivers no further onChunk.                           *)
C31_CancelStopsChunks ==
  [][(InFlight(TheCall) /\ calls[TheCall].aborted /\ Len(delivered') > Len(delivered)) =>
       delivered'[Len(delivered')].callback # "onChunk"]_vars


C33_ClassificationPrecedence ==
  outcome.kind = "threw" =>
    LET type == outcome.error.type
        auth == lastError \cap {"api key", "api_key", "invalid"} # {}
        quota == lastError \cap {"quota", "limit exceeded"} # {}
        rate == lastError \cap {"rate", "429"} # {}
        network == lastError \cap {"network", "fetch", "timeout"} # {}
    IN /\ (type = ERROR_TYPES.API_KEY_MISSING) <=> ~isConfigured(apiKey)
       /\ isConfigured(apiKey) =>
            /\ auth => type = ERROR_TYPES.API_KEY_INVALID
            /\ (~auth /\ quota) => type = ERROR_TYPES.QUOTA_EXCEEDED
            /\ (~auth /\ ~quota /\ rate) => type = ERROR_TYPES.RATE_LIMITED
            /\ (~auth /\ ~quota /\ ~rate /\ network) => type = ERROR_TYPES.NETWORK_ERROR
            /\ (~auth /\ ~quota /\ ~rate /\ ~network) => type = ERROR_TYPES.UNKNOWN

(* 'rate limit exceeded' was classified as QUOTA_EXCEEDED *)
C33_Witness ==
  /\ outcome.kind = "threw"
  /\ lastError = {"rate", "limit exceeded"}
  /\ outcome.error.type = ERROR_TYPES.QUOTA_EXCEEDED


(* C34: the newest streaming call that is in flight and was not cancelled  *)
(* owns the abort controller the provider holds.                           *)
C34_ControllerOfCallInFlight ==
  \A c \in CallIds :
    (InFlight(c) /\ ~calls[c].aborted /\ ~(\E d \in CallIds : d > c /\ InFlight(d))) =>
      activeAbortController = c


(* C35: the placeholder id of the streaming message is set exactly while   *)
(* the session state is STREAMING.                                         *)
C35_PlaceholderIffStreaming ==
  (streamingMessageId # NoId) <=> (chatState = CHAT_STATE.STREAMING)


(* a session is streaming and has published text under its placeholder id *)
C35_Witness ==
  /\ chatState = CHAT_STATE.STREAMING
  /\ streamingMessageId # NoId
  /\ streamingContent # <<>>


(* C36: clearMessages leaves an empty list, no error, no streaming text,   *)
(* no placeholder and the state IDLE, and the list then stays empty until  *)
(* the next send.                                                          *)
C36_ClearedUntilNextSend ==
  [][/\ ClearMessages =>
          /\ messages' = <<>>
          /\ error' = NULL
          /\ streamingContent' = <<>>
          /\ streamingMessageId' = NoId
          /\ chatState' = CHAT_STATE.IDLE
     /\ (messages = <<>> /\ sends > 0 /\ sends' = sends) => messages' = <<>>]_vars


(* C37: through the user interface a session starts only while none is     *)
(* loading or streaming and no call is in flight, and a submit of a blank  *)
(* value starts none.                                                      *)
C37_NoSecondSessionFromUi ==
  [][(sends' # sends) =>
       /\ ~isLoading
       /\ \A c \in CallIds : ~InFlight(c)
       /\ ~BannerRetry => Trim(inputValue) # <<>>]_vars

(* a second session was started through the interface after the first one  *)
(* had ended, and is now streaming                                         *)
C37_Witness ==
  /\ sends = 2
  /\ calls[1].pc = "done"
  /\ InFlight(2)
  /\ isLoading


(* C38: a scroll check that finds the view away from the bottom and the    *)
(* scroll not upward leaves isUserScrolledUpRef as it is; every check      *)
(* stores its sample in lastScrollTopRef; only a scroll check and          *)
(* forceScrollToBottom change isUserScrolledUpRef.                         *)
C38_FlagFrame ==
  [][/\ ScrollCheck =>
          /\ lastScrollTopRef' = scrollTimeoutRef
          /\ (~isAtBottom(streamingContent, scrollTop) /\ scrollTimeoutRef >= lastScrollTopRef)
               => UNCHANGED isUserScrolledUpRef
     /\ (isUserScrolledUpRef' # isUserScrolledUpRef) =>
          (ScrollCheck \/ ForceScrollToBottom)]_vars

(* auto-scroll is on although the view rests away from the bottom: the     *)
(* last check, at this position, found a scroll that was not upward and    *)
(* left the flag as it was (content that grew later would have moved the   *)
(* view to the bottom)                                                     *)
C38_Witness ==
  /\ optionsPassed
  /\ listenerAttached
  /\ ~isUserScrolledUpRef
  /\ scrollTimeoutRef = NoTimeout
  /\ scrollFrames = 0
  /\ scrollTop = ScrollStep
  /\ lastScrollTopRef = scrollTop
  /\ ~isAtBottom(streamingContent, scrollTop)


(* C39: a retry from the ERROR state does not duplicate the user's turn:   *)
(* the list holds as many user messages after retryLastMessage as before.  *)
C39_RetryKeepsOneUserTurn ==
  [][(chatState = CHAT_STATE.ERROR /\ RetryLastMessage) =>
       Len(UserMessages(messages')) = Len(UserMessages(messages))]_vars


(* C40: the retrying generateResponse terminates: it repeats the request   *)
(* only after a retryable error, makes at most MAX_RETRIES + 1 attempts,   *)
(* returns the text of the first attempt that succeeds, and otherwise      *)
(* throws the categorized error of the last attempt, which for an error    *)
(* that is not retryable is the attempt that met it.                       *)
C40_RetryTerminates ==
  /\ [](retryCount + 1 <= API_CONFIG.MAX_RETRIES + 1)
  /\ [][/\ (method = "retrying" /\ retryCount' # retryCount) =>
             /\ retryCount' = retryCount + 1
             /\ _isRetryableError(lastError)
        /\ (method = "retrying" /\ outcome.kind = "pending" /\ outcome'.kind = "returned") =>
             outcome'.value = ResponseText(retryCount + 1)
        /\ (method = "retrying" /\ outcome.kind = "pending" /\ outcome'.kind = "threw") =>
             /\ outcome'.error = _handleError(lastError')
             /\ ~_isRetryableError(lastError') \/ retryCount = API_CONFIG.MAX_RETRIES
             /\ UNCHANGED retryCount]_vars
  /\ (method = "retrying") ~> (outcome.kind # "pending")

(* four attempts failed with a network error: the call threw NETWORK_ERROR *)
C40_Witness ==
  /\ method = "retrying"
  /\ retryCount = API_CONFIG.MAX_RETRIES
  /\ lastError = {"network"}
  /\ outcome = Threw(_handleError({"network"}))

====
